---- MODULE Spec2Model ----
(***************************************************************************)
(* Model of LassoSelection (src/source/lasso_selection.cpp with the header *)
(* src/unnamed/part_002): the capture session, the RDP simplifier, the     *)
(* Active-Edge-Table scanline fill and the ray-casting containment test.   *)
(*                                                                         *)
(* Numbers.  Coordinates are ints.  The three double fields are kept as    *)
(* integers in fixed units:                                                *)
(*   m_minPointDistance, m_simplifyTolerance : multiples of 1/2            *)
(*   m_minPointDistanceSquared               : multiples of 1/4            *)
(* so the constructor's 0.5, 0.25, 0.5 are 1, 1, 1.  An edge's double x    *)
(* and invSlope are the rationals x/den and invSlope/den with den = |dy|.  *)
(* For coordinate spans below 6 every interior scanline intersection that  *)
(* is an integer has an inverse slope that is a multiple of 1/2 (exact in  *)
(* binary), and every other intersection is at least 1/5 away from an      *)
(* integer, so ceil/floor/< on the doubles agree with the rationals.       *)
(* Distances are compared through their squares (num2/den), which orders   *)
(* them as the doubles are ordered for these magnitudes.                   *)
(***************************************************************************)
EXTENDS Integers, Sequences, FiniteSets, TLC

VARIABLES m_path, m_simplifiedPath, m_boundingBox, m_active, m_closed,
          m_minPointDistance, m_minPointDistanceSquared, m_simplifyTolerance,
          op

vars == <<m_path, m_simplifiedPath, m_boundingBox, m_active, m_closed,
          m_minPointDistance, m_minPointDistanceSquared, m_simplifyTolerance,
          op>>

(* The session's own fields (op is the record of the last call made). *)
session == <<m_path, m_simplifiedPath, m_boundingBox, m_active, m_closed,
             m_minPointDistance, m_minPointDistanceSquared,
             m_simplifyTolerance>>

config == <<m_minPointDistance, m_minPointDistanceSquared, m_simplifyTolerance>>

-----------------------------------------------------------------------------
(* Bounds of the explored inputs. *)

MaxCoord == 3

MaxPoints == 4

MaxFloor == 1

CfgMaxCoord == 1

CfgMaxPoints == 3

MaxHalves == 3

TolMaxCoord == 2

TolMaxPoints == 4

TolHalves == 2

LongMaxPoints == 41

-----------------------------------------------------------------------------
(* Values set by the constructor. *)

DefaultMinPointDistance == 1

DefaultMinPointDistanceSquared == 1

DefaultSimplifyTolerance == 1

-----------------------------------------------------------------------------
(* Arithmetic helpers. *)

Abs(a) == IF a < 0 THEN -a ELSE a

(* std::floor and std::ceil of the rational n/d, d > 0. *)
Floor(n, d) == n \div d

Ceil(n, d) == -((-n) \div d)

(* C++ int division: truncation toward zero. *)
IntDiv(a, b) ==
    LET q == Abs(a) \div Abs(b)
    IN  IF (a < 0) = (b < 0) THEN q ELSE -q

Last(s) == s[Len(s)]

-----------------------------------------------------------------------------
(* LassoPoint *)

LassoPoint(x, y) == [x |-> x, y |-> y]

(* dy taken from x as well. *)
distanceSquaredTo_SameAxis(p, other) ==
    LET dx == p.x - other.x
        dy == p.x - other.x
    IN  dx * dx + dy * dy

distanceSquaredTo(p, other) ==
    LET dx == p.x - other.x
        dy == p.y - other.y
    IN  dx * dx + dy * dy

(* The square of the returned double, as num2/den. *)
distanceTo(p, other) ==
    LET dx == p.x - other.x
        dy == p.y - other.y
    IN  [num2 |-> dx * dx + dy * dy, den |-> 1]

-----------------------------------------------------------------------------
(* LassoBoundingBox *)

EmptyBoundingBox ==
    [minX |-> 0, minY |-> 0, maxX |-> 0, maxY |-> 0, hasPoints |-> FALSE]

(* A reset that keeps the extent. *)
reset_Keeps(bb) == bb

reset(bb) == EmptyBoundingBox

(* An expand that never raises maxY after the first point. *)
expand_ForgetsMaxY(bb, x, y) ==
    IF ~bb.hasPoints
    THEN [minX |-> x, minY |-> y, maxX |-> x, maxY |-> y, hasPoints |-> TRUE]
    ELSE [minX |-> IF x < bb.minX THEN x ELSE bb.minX,
          minY |-> IF y < bb.minY THEN y ELSE bb.minY,
          maxX |-> IF x > bb.maxX THEN x ELSE bb.maxX,
          maxY |-> bb.maxY,
          hasPoints |-> TRUE]

expand(bb, x, y) ==
    IF ~bb.hasPoints
    THEN [minX |-> x, minY |-> y, maxX |-> x, maxY |-> y, hasPoints |-> TRUE]
    ELSE [minX |-> IF x < bb.minX THEN x ELSE bb.minX,
          minY |-> IF y < bb.minY THEN y ELSE bb.minY,
          maxX |-> IF x > bb.maxX THEN x ELSE bb.maxX,
          maxY |-> IF y > bb.maxY THEN y ELSE bb.maxY,
          hasPoints |-> TRUE]

contains(bb, x, y) ==
    IF ~bb.hasPoints
    THEN FALSE
    ELSE x >= bb.minX /\ x <= bb.maxX /\ y >= bb.minY /\ y <= bb.maxY

isValid(bb) == bb.hasPoints /\ bb.minX <= bb.maxX /\ bb.minY <= bb.maxY

boundingBoxWidth(bb) == IF bb.hasPoints THEN bb.maxX - bb.minX ELSE 0

boundingBoxHeight(bb) == IF bb.hasPoints THEN bb.maxY - bb.minY ELSE 0

-----------------------------------------------------------------------------
(* Ramer-Douglas-Peucker simplification. *)

(* The square of the returned double, as num2/den. *)
perpendicularDistance(point, lineStart, lineEnd) ==
    LET dx == lineEnd.x - lineStart.x
        dy == lineEnd.y - lineStart.y
        lineLengthSq == dx * dx + dy * dy
        cross == Abs((point.x - lineStart.x) * dy - (point.y - lineStart.y) * dx)
    IN  IF lineLengthSq = 0
        THEN distanceTo(point, lineStart)
        ELSE [num2 |-> cross * cross, den |-> lineLengthSq]

(* a > b on two such distances. *)
DistGreater(a, b) == a.num2 * b.den > b.num2 * a.den

(* The test is made against twice the tolerance. *)
DistExceeds_Doubled(dist, epsilon) ==
    \/ epsilon < 0
    \/ dist.num2 > epsilon * epsilon * dist.den

(* dist > epsilon, epsilon in halves. *)
DistExceeds(dist, epsilon) ==
    \/ epsilon < 0
    \/ 4 * dist.num2 > epsilon * epsilon * dist.den

(* The scan of rdpSimplify for the farthest interior point: the state      *)
(* <<maxDist, maxIndex>> after the loop has run from i to end - 1.         *)
RECURSIVE rdpScan(_, _, _, _, _, _)
rdpScan(points, start, end, i, maxDist, maxIndex) ==
    IF i >= end
    THEN [maxDist |-> maxDist, maxIndex |-> maxIndex]
    ELSE LET dist == perpendicularDistance(points[i], points[start], points[end])
         IN  IF DistGreater(dist, maxDist)
             THEN rdpScan(points, start, end, i + 1, dist, i)
             ELSE rdpScan(points, start, end, i + 1, maxDist, maxIndex)

(* An rdpSimplify whose scan for the farthest point starts one point late. *)
RECURSIVE rdpSimplify_SkipsFirst(_, _, _, _, _)
rdpSimplify_SkipsFirst(points, start, end, epsilon, keep) ==
    IF end - start < 2
    THEN keep
    ELSE LET r == rdpScan(points, start, end, start + 2,
                          [num2 |-> 0, den |-> 1], start)
         IN  IF DistExceeds(r.maxDist, epsilon)
             THEN LET k1 == keep \cup {r.maxIndex}
                      k2 == rdpSimplify_SkipsFirst(points, start, r.maxIndex,
                                                   epsilon, k1)
                  IN  IF r.maxIndex = start
                      THEN k2 \cup {0}
                      ELSE rdpSimplify_SkipsFirst(points, r.maxIndex, end,
                                                  epsilon, k2)
             ELSE keep

(* Mark, in the set of kept indices (which are 1 or more), of a recursion  *)
(* that never returns.                                                     *)
NoReturn == 0

(* The indices rdpSimplify marks in keep, added to those already marked.   *)
(* When no interior point is off the chord, maxIndex is still start; if    *)
(* maxDist = 0 nevertheless exceeds epsilon, the second recursive call is  *)
(* the caller's own call again (same range, keep[start] already set), and  *)
(* the recursion has no end: the result carries NoReturn.                  *)
RECURSIVE rdpSimplify(_, _, _, _, _)
rdpSimplify(points, start, end, epsilon, keep) ==
    IF end - start < 2
    THEN keep
    ELSE LET r == rdpScan(points, start, end, start + 1,
                          [num2 |-> 0, den |-> 1], start)
         IN  IF DistExceeds(r.maxDist, epsilon)
             THEN LET k1 == keep \cup {r.maxIndex}
                      k2 == rdpSimplify(points, start, r.maxIndex, epsilon, k1)
                  IN  IF r.maxIndex = start
                      THEN k2 \cup {NoReturn}
                      ELSE rdpSimplify(points, r.maxIndex, end, epsilon, k2)
             ELSE keep

(* The points of path at the kept indices, in order. *)
RECURSIVE KeptPoints(_, _, _)
KeptPoints(path, keep, i) ==
    IF i > Len(path)
    THEN <<>>
    ELSE IF i \in keep
         THEN <<path[i]>> \o KeptPoints(path, keep, i + 1)
         ELSE KeptPoints(path, keep, i + 1)

(* A simplifyPath that marks only the first point before the recursion. *)
simplifyPath_DropsLast(path, tolerance) ==
    IF Len(path) < 3
    THEN path
    ELSE KeptPoints(path,
                    rdpSimplify(path, 1, Len(path), tolerance, {1}),
                    1)

(* simplifyPath() returns to its caller. *)
simplifyPathReturns(path, tolerance) ==
    \/ Len(path) < 3
    \/ NoReturn \notin rdpSimplify(path, 1, Len(path), tolerance, {1, Len(path)})

(* The value simplifyPath() leaves in m_simplifiedPath when it returns. *)
simplifyPath(path, tolerance) ==
    IF Len(path) < 3
    THEN path
    ELSE KeptPoints(path,
                    rdpSimplify(path, 1, Len(path), tolerance, {1, Len(path)}),
                    1)

-----------------------------------------------------------------------------
(* Polygon used by the fill and by the containment test. *)

Polygon(path, simplifiedPath) ==
    IF simplifiedPath = <<>> THEN path ELSE simplifiedPath

-----------------------------------------------------------------------------
(* Active-Edge-Table scanline fill. *)

Position(x, y, z) == [x |-> x, y |-> y, z |-> z]

(* LassoEdge(yMax, x, invSlope): the doubles x and invSlope are x/den and  *)
(* invSlope/den.                                                           *)
LassoEdge(yMax, xAtYMin, dx, dy) ==
    [yMax |-> yMax,
     x |-> xAtYMin * Abs(dy),
     invSlope |-> IF dy < 0 THEN -dx ELSE dx,
     den |-> Abs(dy)]

(* The edge table after the loop of buildEdgeTable has run from i on. *)
RECURSIVE buildEdgeTableFrom(_, _, _, _)
buildEdgeTableFrom(poly, minY, edgeTable, i) ==
    IF i > Len(poly) - 1
    THEN edgeTable
    ELSE LET p1 == poly[i]
             p2 == poly[i + 1]
             yMin == IF p1.y < p2.y THEN p1.y ELSE p2.y
             yMax == IF p1.y < p2.y THEN p2.y ELSE p1.y
             xAtYMin == IF p1.y < p2.y THEN p1.x ELSE p2.x
             bucketIndex == yMin - minY
             edge == LassoEdge(yMax, xAtYMin, p2.x - p1.x, p2.y - p1.y)
         IN  IF p1.y = p2.y
             THEN buildEdgeTableFrom(poly, minY, edgeTable, i + 1)
             ELSE IF bucketIndex >= 0 /\ bucketIndex < Len(edgeTable)
                  THEN buildEdgeTableFrom(poly, minY,
                           [edgeTable EXCEPT ![bucketIndex + 1] = Append(@, edge)],
                           i + 1)
                  ELSE buildEdgeTableFrom(poly, minY, edgeTable, i + 1)

(* edgeTable[b + 1] is bucket b. *)
buildEdgeTable(poly, edgeTable, minY) ==
    IF Len(poly) < 3
    THEN edgeTable
    ELSE buildEdgeTableFrom(poly, minY, edgeTable, 1)

(* The comparator of the sort: a.x < b.x. *)
EdgeLess(a, b) == a.x * b.den < b.x * a.den

(* std::sort by x.  The order of edges with equal x is unspecified and is  *)
(* immaterial: the fill reads only x, and the list is sorted again on the  *)
(* next scanline.                                                          *)
RECURSIVE InsertEdge(_, _)
InsertEdge(sorted, e) ==
    IF sorted = <<>>
    THEN <<e>>
    ELSE IF EdgeLess(e, Head(sorted))
         THEN <<e>> \o sorted
         ELSE <<Head(sorted)>> \o InsertEdge(Tail(sorted), e)

(* No sort: the edges stay in edge-table order. *)
SortEdges_Unsorted(edges) == edges

RECURSIVE SortEdges(_)
SortEdges(edges) ==
    IF edges = <<>>
    THEN <<>>
    ELSE InsertEdge(SortEdges(Tail(edges)), Head(edges))

(* No edge is ever dropped from the active list. *)
RemoveEnded_Never(activeEdges, y) == activeEdges

(* Edges are kept on their yMax row and dropped after it. *)
RemoveEnded_AfterRow(activeEdges, y) ==
    LET Stays(e) == ~(e.yMax < y)
    IN  SelectSeq(activeEdges, Stays)

(* Edges that stay active on scanline y. *)
RemoveEnded(activeEdges, y) ==
    LET Stays(e) == ~(e.yMax = y)
    IN  SelectSeq(activeEdges, Stays)

(* The span starts one cell to the left of its first cell. *)
Span_StartsEarly(xStart, xEnd, y, floor) ==
    IF xEnd < xStart
    THEN <<>>
    ELSE [k \in 1..(xEnd - xStart + 2) |-> Position(xStart + k - 2, y, floor)]

(* Every cell is put on the ground floor, whatever floor was asked for. *)
Span_FixedFloor(xStart, xEnd, y, floor) ==
    IF xEnd < xStart
    THEN <<>>
    ELSE [k \in 1..(xEnd - xStart + 1) |-> Position(xStart + k - 1, y, 0)]

(* The cells x = xStart .. xEnd of one span. *)
Span(xStart, xEnd, y, floor) ==
    IF xEnd < xStart
    THEN <<>>
    ELSE [k \in 1..(xEnd - xStart + 1) |-> Position(xStart + k - 1, y, floor)]

(* The cells between the pairs (i, i+1), (i+2, i+3), ... of the sorted list. *)
RECURSIVE FillPairs(_, _, _, _)
FillPairs(activeEdges, i, y, floor) ==
    IF i + 1 > Len(activeEdges)
    THEN <<>>
    ELSE LET xStart == Ceil(activeEdges[i].x, activeEdges[i].den)
             xEnd == Floor(activeEdges[i + 1].x, activeEdges[i + 1].den)
         IN  Span(xStart, xEnd, y, floor) \o FillPairs(activeEdges, i + 2, y, floor)

(* The edges keep the x of the scanline on which they became active. *)
AdvanceEdges_Stays(activeEdges) == activeEdges

(* edge.x += edge.invSlope for every active edge. *)
AdvanceEdges(activeEdges) ==
    [k \in 1..Len(activeEdges) |->
        [activeEdges[k] EXCEPT !.x = @ + activeEdges[k].invSlope]]

(* The scanline loop from y to maxY. *)
RECURSIVE ScanLines(_, _, _, _, _, _, _)
ScanLines(edgeTable, activeEdges, y, minY, maxY, floor, tiles) ==
    IF y > maxY
    THEN tiles
    ELSE LET bucketIndex == y - minY
             added == IF bucketIndex < Len(edgeTable)
                      THEN activeEdges \o edgeTable[bucketIndex + 1]
                      ELSE activeEdges
             remaining == RemoveEnded(added, y)
             sorted == SortEdges(remaining)
         IN  IF remaining = <<>>
             THEN ScanLines(edgeTable, remaining, y + 1, minY, maxY, floor, tiles)
             ELSE ScanLines(edgeTable, AdvanceEdges(sorted), y + 1, minY, maxY,
                            floor, tiles \o FillPairs(sorted, 1, y, floor))

(* The sorted active edge list with which the scanline loop, run from y,   *)
(* fills the scanline row.                                                 *)
RECURSIVE ActiveEdgesOnRow(_, _, _, _, _)
ActiveEdgesOnRow(edgeTable, activeEdges, y, minY, row) ==
    LET bucketIndex == y - minY
        added == IF bucketIndex < Len(edgeTable)
                 THEN activeEdges \o edgeTable[bucketIndex + 1]
                 ELSE activeEdges
        remaining == RemoveEnded(added, y)
        sorted == SortEdges(remaining)
    IN  IF y = row
        THEN sorted
        ELSE IF remaining = <<>>
             THEN ActiveEdgesOnRow(edgeTable, remaining, y + 1, minY, row)
             ELSE ActiveEdgesOnRow(edgeTable, AdvanceEdges(sorted), y + 1, minY,
                                   row)

scanlineFillAET(path, simplifiedPath, bb, floor) ==
    LET poly == Polygon(path, simplifiedPath)
        height == bb.maxY - bb.minY + 1
        edgeTable == buildEdgeTable(poly, [b \in 1..height |-> <<>>], bb.minY)
    IN  IF Len(poly) < 3
        THEN <<>>
        ELSE IF ~isValid(bb)
             THEN <<>>
             ELSE ScanLines(edgeTable, <<>>, bb.minY, bb.minY, bb.maxY, floor, <<>>)

(* The greatest value of the 32-bit int estimatedTiles. *)
IntMax == 2147483647

(* (width() + 1) * (height() + 1) is more than an int holds.  The test is  *)
(* made by division: the product itself may not be formed.                 *)
estimatedTilesOverflows(bb) ==
    boundingBoxWidth(bb) + 1 > IntMax \div (boundingBoxHeight(bb) + 1)

(* tiles.reserve(estimatedTiles / 2) has returned. *)
Reserved == "reserved"

(* What the pre-sizing of getTilesInPolygon can do.  It is not reached on  *)
(* the early return and is skipped for an invalid box.  A signed overflow  *)
(* of the estimate is undefined: where the product wraps to a negative     *)
(* int, reserve is asked for a size beyond max_size() and throws           *)
(* std::length_error, or std::bad_alloc where the build has dropped that   *)
(* test; where it wraps to 0 or more, or is kept wider, the call goes on.  *)
ReserveOutcomes(closed, path, bb) ==
    IF ~closed \/ Len(path) < 3 \/ ~isValid(bb)
    THEN {Reserved}
    ELSE IF estimatedTilesOverflows(bb)
         THEN {Reserved, "std::length_error", "std::bad_alloc"}
         ELSE {Reserved}

(* A guard that forgets the closed flag. *)
getTilesInPolygon_IgnoresClosed(closed, path, simplifiedPath, bb, floor) ==
    IF Len(path) < 3
    THEN <<>>
    ELSE scanlineFillAET(path, simplifiedPath, bb, floor)

(* The list getTilesInPolygon returns when the pre-sizing has returned. *)
getTilesInPolygon(closed, path, simplifiedPath, bb, floor) ==
    IF ~closed \/ Len(path) < 3
    THEN <<>>
    ELSE scanlineFillAET(path, simplifiedPath, bb, floor)

-----------------------------------------------------------------------------
(* Ray-casting containment test. *)

(* The toggle condition of the loop body for the edge (poly[i], poly[j]). *)
RayCrosses(poly, i, j, x, y) ==
    /\ (poly[i].y > y) # (poly[j].y > y)
    /\ x < IntDiv((poly[j].x - poly[i].x) * (y - poly[i].y),
                  poly[j].y - poly[i].y) + poly[i].x

(* The loop from i on, j the previous index, inside the parity so far. *)
RECURSIVE RayLoop(_, _, _, _, _, _)
RayLoop(poly, i, j, x, y, inside) ==
    IF i > Len(poly)
    THEN inside
    ELSE RayLoop(poly, i + 1, i, x, y,
                 IF RayCrosses(poly, i, j, x, y) THEN ~inside ELSE inside)

pointInPolygon(path, simplifiedPath, x, y) ==
    LET poly == Polygon(path, simplifiedPath)
    IN  IF Len(poly) < 3
        THEN FALSE
        ELSE RayLoop(poly, 1, Len(poly), x, y, FALSE)

-----------------------------------------------------------------------------
(* The session's operations.  op records the call just made and what it   *)
(* returned.                                                               *)

(* simplifyPath counts the simplifyPath() calls the handler has made. *)
Call(name, args, ret) ==
    [name |-> name, args |-> args, ret |-> ret, simplifyPath |-> 0]

(* The record of a call whose handler has called simplifyPath() once. *)
SimplifyingCall(name, args, ret) ==
    [name |-> name, args |-> args, ret |-> ret, simplifyPath |-> 1]

Init ==
    /\ m_path = <<>>
    /\ m_simplifiedPath = <<>>
    /\ m_boundingBox = EmptyBoundingBox
    /\ m_active = FALSE
    /\ m_closed = FALSE
    /\ m_minPointDistance = DefaultMinPointDistance
    /\ m_minPointDistanceSquared = DefaultMinPointDistanceSquared
    /\ m_simplifyTolerance = DefaultSimplifyTolerance
    /\ op = Call("LassoSelection", <<>>, <<>>)

(* A clear() that leaves the active flag alone. *)
clear_KeepsActive ==
    /\ m_path' = <<>>
    /\ m_simplifiedPath' = <<>>
    /\ m_boundingBox' = EmptyBoundingBox
    /\ m_closed' = FALSE
    /\ UNCHANGED <<m_active, config>>

(* The body of clear(). *)
clear ==
    /\ m_path' = <<>>
    /\ m_simplifiedPath' = <<>>
    /\ m_boundingBox' = reset(m_boundingBox)
    /\ m_active' = FALSE
    /\ m_closed' = FALSE
    /\ UNCHANGED config

Clear ==
    /\ clear
    /\ op' = Call("clear", <<>>, <<>>)

(* An addPoint without the minimum-distance check. *)
TooClose_Never(path, newPoint, minPointDistanceSquared) == FALSE

(* The early return of addPoint: too close to the last point. *)
TooClose(path, newPoint, minPointDistanceSquared) ==
    /\ path # <<>>
    /\ 4 * distanceSquaredTo(Last(path), newPoint) < minPointDistanceSquared

(* The refresh of the open drag comes every 15 points. *)
DragSimplified_Every15(path, simplifiedPath) ==
    IF Len(path) <= 2
    THEN path
    ELSE IF Len(path) % 15 = 0
         THEN path
         ELSE simplifiedPath

(* An addPoint that runs the simplifier on every refresh. *)
DragSimplified_Simplifies(path, simplifiedPath) ==
    simplifyPath(path, DefaultSimplifyTolerance)

(* m_simplifiedPath after addPoint has appended, path being the new m_path. *)
DragSimplified(path, simplifiedPath) ==
    IF Len(path) <= 2
    THEN path
    ELSE IF Len(path) % 20 = 0
         THEN path
         ELSE simplifiedPath

AddPoint(x, y) ==
    LET newPoint == LassoPoint(x, y)
    IN  /\ op' = Call("addPoint", <<x, y>>, <<>>)
        /\ IF TooClose(m_path, newPoint, m_minPointDistanceSquared)
           THEN UNCHANGED session
           ELSE /\ m_path' = Append(m_path, newPoint)
                /\ m_boundingBox' = expand(m_boundingBox, x, y)
                /\ m_simplifiedPath' = DragSimplified(m_path', m_simplifiedPath)
                /\ UNCHANGED <<m_active, m_closed, config>>

(* The first point is appended whether or not the path already ends there. *)
ClosedPath_AlwaysAppends(path) == Append(path, path[1])

(* m_path after closePath has closed the polygon. *)
ClosedPath(path) ==
    IF ~(path[1] = Last(path))
    THEN Append(path, path[1])
    ELSE path

(* What op records for a call that never returns to its caller (the       *)
(* recursion runs until the stack is exhausted, or for ever where the      *)
(* build turns the tail call into a loop).                                 *)
Unreturned == <<"no return">>

ClosePath ==
    IF Len(m_path) < 3
    THEN /\ clear
         /\ op' = Call("closePath", <<>>, <<>>)
    ELSE /\ m_path' = ClosedPath(m_path)
         /\ m_closed' = TRUE
         /\ IF simplifyPathReturns(m_path', m_simplifyTolerance)
            THEN /\ m_simplifiedPath' = simplifyPath(m_path', m_simplifyTolerance)
                 /\ op' = SimplifyingCall("closePath", <<>>, <<>>)
            ELSE /\ m_simplifiedPath' = m_simplifiedPath
                 /\ op' = SimplifyingCall("closePath", <<>>, Unreturned)
         /\ UNCHANGED <<m_boundingBox, m_active, config>>

(* What op records for a call left by an exception. *)
Throws(what) == <<[what |-> what]>>

(* getTilesInPolygon(floor) with the given outcome of its pre-sizing. *)
GetTilesInPolygonReserving(floor, outcome) ==
    /\ outcome \in ReserveOutcomes(m_closed, m_path, m_boundingBox)
    /\ op' = Call("getTilesInPolygon", <<floor>>,
                  IF outcome = Reserved
                  THEN getTilesInPolygon(m_closed, m_path, m_simplifiedPath,
                                         m_boundingBox, floor)
                  ELSE Throws(outcome))
    /\ UNCHANGED session

GetTilesInPolygon(floor) ==
    \E outcome \in ReserveOutcomes(m_closed, m_path, m_boundingBox) :
        GetTilesInPolygonReserving(floor, outcome)

SetActive(active) ==
    /\ m_active' = active
    /\ op' = Call("setActive", <<active>>, <<>>)
    /\ UNCHANGED <<m_path, m_simplifiedPath, m_boundingBox, m_closed, config>>

SetMinPointDistance(dist) ==
    /\ m_minPointDistance' = dist
    /\ op' = Call("setMinPointDistance", <<dist>>, <<>>)
    /\ UNCHANGED <<m_path, m_simplifiedPath, m_boundingBox, m_active, m_closed,
                   m_minPointDistanceSquared, m_simplifyTolerance>>

SetSimplifyTolerance(tol) ==
    /\ m_simplifyTolerance' = tol
    /\ op' = Call("setSimplifyTolerance", <<tol>>, <<>>)
    /\ UNCHANGED <<m_path, m_simplifiedPath, m_boundingBox, m_active, m_closed,
                   m_minPointDistance, m_minPointDistanceSquared>>

-----------------------------------------------------------------------------
(* Spec: one gesture after another with the constructor's configuration,  *)
(* points on the grid 0..MaxCoord, at most MaxPoints samples added.        *)

Next ==
    \/ Clear
    \/ \E x \in 0..MaxCoord, y \in 0..MaxCoord :
          Len(m_path) < MaxPoints /\ AddPoint(x, y)
    \/ ClosePath
    \/ \E floor \in 0..MaxFloor : GetTilesInPolygon(floor)

Spec == Init /\ [][Next]_vars

(* SpecConfig: the whole public interface, the setters included, on the    *)
(* grid 0..CfgMaxCoord.                                                    *)

NextConfig ==
    \/ Clear
    \/ \E x \in 0..CfgMaxCoord, y \in 0..CfgMaxCoord :
          Len(m_path) < CfgMaxPoints /\ AddPoint(x, y)
    \/ ClosePath
    \/ \E floor \in 0..MaxFloor : GetTilesInPolygon(floor)
    \/ \E active \in BOOLEAN : SetActive(active)
    \/ \E dist \in 0..MaxHalves : SetMinPointDistance(dist)
    \/ \E tol \in 0..MaxHalves : SetSimplifyTolerance(tol)

SpecConfig == Init /\ [][NextConfig]_vars

(* SpecTol: outlines closed under every tolerance the setter takes, the    *)
(* negative ones included, on the grid 0..TolMaxCoord.  A call that does   *)
(* not return ends the run of the program.                                 *)

Running == op.ret # Unreturned

NextTol ==
    \/ Running /\ Clear
    \/ \E x \in 0..TolMaxCoord, y \in 0..TolMaxCoord :
          Running /\ Len(m_path) < TolMaxPoints /\ AddPoint(x, y)
    \/ Running /\ ClosePath
    \/ \E tol \in -TolHalves..TolHalves :
          Running /\ SetSimplifyTolerance(tol)

SpecTol == Init /\ [][NextTol]_vars

(* SpecMap: getTilesInPolygon on outlines as large as the map.  The run    *)
(* starts in the session that addPoint(a), addPoint(b), addPoint(c),       *)
(* closePath() leave for the corner a = (x0, y0), b = (x1, y0),            *)
(* c = (x1, y1) of a rectangle with x0 # x1 and y0 # y1: the raw path is   *)
(* a, b, c, a and the simplifier keeps all of it, since c is the farthest  *)
(* point from a and b is w * h / sqrt(w * w + h * h) >= 1 / sqrt(2) away   *)
(* from the line through a and c, which exceeds the default tolerance.     *)
(* The fill itself is explored only for boxes of the size of the small     *)
(* grid.                                                                   *)

MapMax == 65535

MapCoords == {0, 1, MapMax \div 2, MapMax}

InitMap ==
    \E x0 \in MapCoords, x1 \in MapCoords, y0 \in MapCoords, y1 \in MapCoords :
        /\ x0 # x1
        /\ y0 # y1
        /\ m_path = <<LassoPoint(x0, y0), LassoPoint(x1, y0),
                      LassoPoint(x1, y1), LassoPoint(x0, y0)>>
        /\ m_simplifiedPath = m_path
        /\ m_boundingBox = expand(expand(expand(EmptyBoundingBox, x0, y0),
                                         x1, y0), x1, y1)
        /\ m_active = FALSE
        /\ m_closed = TRUE
        /\ m_minPointDistance = DefaultMinPointDistance
        /\ m_minPointDistanceSquared = DefaultMinPointDistanceSquared
        /\ m_simplifyTolerance = DefaultSimplifyTolerance
        /\ op = SimplifyingCall("closePath", <<>>, <<>>)

MapFillFeasible ==
    \/ ~m_closed
    \/ /\ boundingBoxWidth(m_boundingBox) <= MaxCoord
       /\ boundingBoxHeight(m_boundingBox) <= MaxCoord

NextMap ==
    \/ Clear
    \/ \E floor \in 0..MaxFloor,
          outcome \in {Reserved, "std::length_error", "std::bad_alloc"} :
          /\ outcome = Reserved => MapFillFeasible
          /\ GetTilesInPolygonReserving(floor, outcome)

SpecMap == InitMap /\ [][NextMap]_vars

(* SpecLong: long drags.  The pointer zigzags between two tiles, so that   *)
(* the raw path grows past the 20 points at which addPoint refreshes the   *)
(* simplified path of an open drag.                                        *)

LongPoints == {LassoPoint(0, 0), LassoPoint(1, 1)}

NextLong ==
    \/ Clear
    \/ \E p \in LongPoints :
          Len(m_path) < LongMaxPoints /\ AddPoint(p.x, p.y)
    \/ ClosePath
    \/ \E floor \in 0..MaxFloor : GetTilesInPolygon(floor)

SpecLong == Init /\ [][NextLong]_vars

-----------------------------------------------------------------------------
(* Vocabulary of the properties. *)

Cells(tiles) == {tiles[i] : i \in DOMAIN tiles}

FillReturned == op.name = "getTilesInPolygon"

CurrentPolygon == Polygon(m_path, m_simplifiedPath)

(* The non-horizontal edges of poly whose span has yMin <= y < yMax. *)
CrossingEdges(poly, y) ==
    {i \in 1..(Len(poly) - 1) :
        \/ poly[i].y <= y /\ y < poly[i + 1].y
        \/ poly[i + 1].y <= y /\ y < poly[i].y}

(* The exact intersection of edge i of poly with the line y, as num/den   *)
(* with den > 0, computed from the edge's end points alone.                *)
Intersection(poly, i, y) ==
    LET lo == IF poly[i].y < poly[i + 1].y THEN poly[i] ELSE poly[i + 1]
        hi == IF poly[i].y < poly[i + 1].y THEN poly[i + 1] ELSE poly[i]
    IN  [num |-> lo.x * (hi.y - lo.y) + (y - lo.y) * (hi.x - lo.x),
         den |-> hi.y - lo.y]

(* x is one of the intersections of poly with y. *)
OnIntersection(poly, x, y) ==
    \E i \in CrossingEdges(poly, y) :
        Intersection(poly, i, y).num = x * Intersection(poly, i, y).den

(* How many intersections of poly with y (one per edge) lie left of x. *)
IntersectionsLeftOf(poly, x, y) ==
    Cardinality({i \in CrossingEdges(poly, y) :
        Intersection(poly, i, y).num < x * Intersection(poly, i, y).den})

-----------------------------------------------------------------------------
(* C1 *)

SquareClosed ==
    <<LassoPoint(0, 0), LassoPoint(0, 3), LassoPoint(3, 3), LassoPoint(3, 0),
      LassoPoint(0, 0)>>

(* The session after addPoint (0,0),(0,3),(3,3),(3,0), closePath() and     *)
(* getTilesInPolygon(0).                                                   *)
SquareFilled ==
    /\ FillReturned
    /\ op.args = <<0>>
    /\ m_closed
    /\ m_path = SquareClosed

(* C1 as stated: the square (0,0),(0,3),(3,3),(3,0), closed and filled on  *)
(* floor 0, yields exactly the 16 cells (0..3, 0..3, 0).                   *)
C1_SquareYields16Cells ==
    SquareFilled =>
        /\ Cells(op.ret) = {Position(x, y, 0) : x \in 0..3, y \in 0..3}
        /\ Len(op.ret) = 16

(* C1 amended: the same square yields exactly the 12 cells (0..3, 0..2, 0): *)
(* the row y = 3, where both vertical edges end, is not filled.            *)
C1_SquareYields12Cells ==
    SquareFilled =>
        /\ Cells(op.ret) = {Position(x, y, 0) : x \in 0..3, y \in 0..2}
        /\ Len(op.ret) = 12

C1_Witness == SquareFilled /\ op.ret # <<>>

-----------------------------------------------------------------------------
(* C2: the list returned by getTilesInPolygon(floor) contains no           *)
(* (x, y, floor) triple more than once, also for self-intersecting and     *)
(* self-touching outlines.                                                 *)
C2_NoDuplicateCells ==
    FillReturned =>
        \A i, j \in DOMAIN op.ret : i # j => op.ret[i] # op.ret[j]

-----------------------------------------------------------------------------
(* C3: every cell returned by getTilesInPolygon satisfies                  *)
(* pointInPolygon(x, y) = true.                                            *)
C3_FilledCellsAreInside ==
    FillReturned =>
        \A i \in DOMAIN op.ret :
            pointInPolygon(m_path, m_simplifiedPath, op.ret[i].x, op.ret[i].y)

-----------------------------------------------------------------------------
(* C4: even-odd rule.  For a closed polygon, a scanline y of the bounding  *)
(* box and an integer x that is none of the intersections of y with the    *)
(* non-horizontal edges spanning yMin <= y < yMax, the cell (x, y) is      *)
(* returned if and only if the number of those intersections (counted one  *)
(* per edge) smaller than x is odd.                                        *)

ClosedPolygonFilled ==
    /\ FillReturned
    /\ m_closed
    /\ Len(m_path) >= 3
    /\ CurrentPolygon[1] = Last(CurrentPolygon)

C4_EvenOddRule ==
    ClosedPolygonFilled =>
        \A y \in m_boundingBox.minY..m_boundingBox.maxY :
            \A x \in (m_boundingBox.minX - 1)..(m_boundingBox.maxX + 1) :
                ~OnIntersection(CurrentPolygon, x, y) =>
                    (Position(x, y, op.args[1]) \in Cells(op.ret)
                        <=> IntersectionsLeftOf(CurrentPolygon, x, y) % 2 = 1)

(* A fill of a closed polygon with four edges on one scanline, where a     *)
(* cell off the intersections is returned and one between the two spans    *)
(* is not.                                                                 *)
C4_Witness ==
    /\ ClosedPolygonFilled
    /\ \E y \in m_boundingBox.minY..m_boundingBox.maxY :
          /\ Cardinality(CrossingEdges(CurrentPolygon, y)) = 4
          /\ \E x1, x2 \in m_boundingBox.minX..m_boundingBox.maxX :
                /\ ~OnIntersection(CurrentPolygon, x1, y)
                /\ ~OnIntersection(CurrentPolygon, x2, y)
                /\ Position(x1, y, op.args[1]) \in Cells(op.ret)
                /\ Position(x2, y, op.args[1]) \notin Cells(op.ret)
                /\ IntersectionsLeftOf(CurrentPolygon, x2, y) = 2

-----------------------------------------------------------------------------
(* C5: if the raw path has at least 3 points, then right after closePath() *)
(* isClosed() is true, the first and last raw points are equal, the first  *)
(* point was appended exactly when it differed from the previous last      *)
(* point, and the earlier points are as they were.                         *)
C5_ClosePathCloses ==
    [][(op'.name = "closePath" /\ Len(m_path) >= 3) =>
          /\ m_closed'
          /\ m_path'[1] = Last(m_path')
          /\ (m_path[1] # Last(m_path) => m_path' = Append(m_path, m_path[1]))
          /\ (m_path[1] = Last(m_path) => m_path' = m_path)]_vars

(* closePath() has just appended the first point. *)
C5_Witness ==
    /\ op.name = "closePath"
    /\ m_closed
    /\ Len(m_path) >= 4
    /\ m_path[Len(m_path) - 1] # m_path[1]
    /\ \A i \in 2..(Len(m_path) - 1) : m_path[i] # m_path[1]

-----------------------------------------------------------------------------
(* C6: with fewer than 3 raw points, closePath() leaves the session as     *)
(* clear() does (raw path, simplified path and bounding box empty, closed  *)
(* and active false), and a following getTilesInPolygon(floor) returns an  *)
(* empty list.                                                             *)
C6_ShortPathResets ==
    [][/\ (op'.name = "closePath" /\ Len(m_path) < 3) =>
             /\ m_path' = <<>>
             /\ m_simplifiedPath' = <<>>
             /\ m_boundingBox' = [minX |-> 0, minY |-> 0, maxX |-> 0,
                                  maxY |-> 0, hasPoints |-> FALSE]
             /\ ~m_closed'
             /\ ~m_active'
             /\ UNCHANGED config
             /\ \A floor \in 0..MaxFloor :
                   getTilesInPolygon(m_closed', m_path', m_simplifiedPath',
                                     m_boundingBox', floor) = <<>>
       /\ (op.name = "closePath" /\ ~m_closed /\ op'.name = "getTilesInPolygon")
             => op'.ret = <<>>]_vars

(* closePath() has just reset a session (every successful closePath()     *)
(* leaves m_closed true).                                                  *)
C6_Witness ==
    /\ op.name = "closePath"
    /\ ~m_closed
    /\ m_path = <<>>
    /\ ~m_boundingBox.hasPoints

-----------------------------------------------------------------------------
(* C7: once closePath() has succeeded, and until clear() is called,        *)
(* addPoint(x, y) leaves the raw path, the simplified path and the         *)
(* bounding box unchanged.                                                 *)
C7_ClosedSessionIsFrozen ==
    [][(m_closed /\ op'.name = "addPoint") =>
          UNCHANGED <<m_path, m_simplifiedPath, m_boundingBox>>]_vars

-----------------------------------------------------------------------------
(* C8: for the spacing d configured with setMinPointDistance(d),           *)
(* addPoint(x, y) on a non-empty raw path appends the point if and only if *)
(* its squared distance to the last accepted point is at least d * d.      *)
(* (m_minPointDistance is d in halves: dist >= d  <=>  4 dist^2 >= d^2.)   *)
C8_ConfiguredSpacingEnforced ==
    [][(op'.name = "addPoint" /\ m_path # <<>>) =>
          LET newPoint == LassoPoint(op'.args[1], op'.args[2])
              dx == newPoint.x - Last(m_path).x
              dy == newPoint.y - Last(m_path).y
          IN  (m_path' = Append(m_path, newPoint))
                 <=> (4 * (dx * dx + dy * dy)
                         >= m_minPointDistance * m_minPointDistance)]_vars

-----------------------------------------------------------------------------
(* C9: with the default spacing 0.5, addPoint(x, y) is rejected exactly    *)
(* when (x, y) equals the last accepted point; a rejected call changes     *)
(* nothing (raw path, simplified path, bounding box, flags), an accepted   *)
(* one appends the point.                                                  *)
C9_RejectedIffSamePoint ==
    [][(op'.name = "addPoint" /\ m_minPointDistance = DefaultMinPointDistance) =>
          LET newPoint == LassoPoint(op'.args[1], op'.args[2])
              same == m_path # <<>> /\ newPoint = Last(m_path)
          IN  /\ same => UNCHANGED session
              /\ ~same => /\ m_path' = Append(m_path, newPoint)
                          /\ Len(m_path') = Len(m_path) + 1]_vars

(* A rejected addPoint: the session is closed on a path of three points,  *)
(* which only closePath() leaves (an accepted addPoint on a closed session *)
(* leaves at least four), and the last call is an addPoint of its last     *)
(* point.                                                                  *)
C9_Witness ==
    /\ op.name = "addPoint"
    /\ m_closed
    /\ Len(m_path) = 3
    /\ m_path[1] = m_path[3]
    /\ LassoPoint(op.args[1], op.args[2]) = Last(m_path)

-----------------------------------------------------------------------------
(* C10: clear() yields empty raw and simplified paths, a bounding box with *)
(* hasPoints = false, isActive() = false and isClosed() = false; a second  *)
(* clear() changes nothing; spacing and tolerance are left as configured.  *)
C10_ClearResets ==
    [][(op'.name = "clear") =>
          /\ m_path' = <<>>
          /\ m_simplifiedPath' = <<>>
          /\ ~m_boundingBox'.hasPoints
          /\ ~m_active'
          /\ ~m_closed'
          /\ UNCHANGED config
          /\ (op.name = "clear" => UNCHANGED session)]_vars

(* clear() has run on a session whose spacing and tolerance had been set   *)
(* away from the constructor's values.                                     *)
C10_Witness ==
    /\ op.name = "clear"
    /\ m_path = <<>>
    /\ m_minPointDistance # DefaultMinPointDistance
    /\ m_simplifyTolerance # DefaultSimplifyTolerance

-----------------------------------------------------------------------------
(* C11: a getTilesInPolygon call made while the session is not closed, or   *)
(* while the raw path has fewer than 3 points, returns the empty list and   *)
(* leaves every field of the session as it was.                             *)
C11_EmptyUnlessClosed ==
    [][(op'.name = "getTilesInPolygon" /\ (~m_closed \/ Len(m_path) < 3))
          => (op'.ret = <<>> /\ UNCHANGED session)]_vars

(* An open drag whose simplified path already has 20 points has been asked *)
(* for its tiles.                                                          *)
C11_Witness ==
    /\ FillReturned
    /\ ~m_closed
    /\ Len(m_simplifiedPath) >= 20
    /\ op.ret = <<>>

-----------------------------------------------------------------------------
(* sub is seq with some elements left out, the others in their order. *)
RECURSIVE IsSubsequence(_, _)
IsSubsequence(sub, seq) ==
    IF sub = <<>>
    THEN TRUE
    ELSE IF seq = <<>>
         THEN FALSE
         ELSE IF Head(sub) = Head(seq)
              THEN IsSubsequence(Tail(sub), Tail(seq))
              ELSE IsSubsequence(sub, Tail(seq))

(* closePath() has just closed a path of 3 or more points and returned. *)
ClosePathSucceeded ==
    /\ op.name = "closePath"
    /\ op.ret = <<>>
    /\ m_closed

(* C12: right after a successful closePath() the simplified path is the    *)
(* raw path with some points left out and the others in their order, it    *)
(* starts with the raw path's first point and ends with its last point.    *)
C12_SimplifiedIsSubsequence ==
    ClosePathSucceeded =>
        /\ IsSubsequence(m_simplifiedPath, m_path)
        /\ m_simplifiedPath # <<>>
        /\ m_simplifiedPath[1] = m_path[1]
        /\ Last(m_simplifiedPath) = Last(m_path)

(* A closePath() under a tolerance other than the default has dropped a    *)
(* point and kept an interior one.                                         *)
C12_Witness ==
    /\ ClosePathSucceeded
    /\ m_simplifyTolerance # DefaultSimplifyTolerance
    /\ Len(m_simplifiedPath) < Len(m_path)
    /\ Len(m_simplifiedPath) >= 3

-----------------------------------------------------------------------------
(* The square of the Euclidean distance from p to the nearest point of the *)
(* segment from a to b, as num2/den.                                       *)
SegmentDistance(p, a, b) ==
    LET dx == b.x - a.x
        dy == b.y - a.y
        lengthSq == dx * dx + dy * dy
        along == (p.x - a.x) * dx + (p.y - a.y) * dy
        cross == (p.x - a.x) * dy - (p.y - a.y) * dx
    IN  IF lengthSq = 0 \/ along <= 0
        THEN [num2 |-> (p.x - a.x) * (p.x - a.x) + (p.y - a.y) * (p.y - a.y),
              den |-> 1]
        ELSE IF along >= lengthSq
             THEN [num2 |-> (p.x - b.x) * (p.x - b.x) + (p.y - b.y) * (p.y - b.y),
                   den |-> 1]
             ELSE [num2 |-> cross * cross, den |-> lengthSq]

(* dist <= eps, eps in halves. *)
WithinTolerance(dist, eps) ==
    /\ eps >= 0
    /\ 4 * dist.num2 <= eps * eps * dist.den

(* C13: right after a successful closePath() every raw point is within the *)
(* tolerance of some segment joining two consecutive simplified points.    *)
C13_RawPointsNearPolyline ==
    ClosePathSucceeded =>
        \A i \in DOMAIN m_path :
            \E j \in 1..(Len(m_simplifiedPath) - 1) :
                WithinTolerance(SegmentDistance(m_path[i], m_simplifiedPath[j],
                                                m_simplifiedPath[j + 1]),
                                m_simplifyTolerance)

-----------------------------------------------------------------------------
(* C14: simplifying the output of a simplification that returned, with the *)
(* same tolerance, returns, and returns that output unchanged; for the raw *)
(* path of every state, and for the simplified path closePath() has left.  *)
C14_SimplifyIdempotent ==
    LET once == simplifyPath(m_path, m_simplifyTolerance)
    IN  /\ simplifyPathReturns(m_path, m_simplifyTolerance) =>
              /\ simplifyPathReturns(once, m_simplifyTolerance)
              /\ simplifyPath(once, m_simplifyTolerance) = once
        /\ ClosePathSucceeded =>
              /\ m_simplifiedPath = once
              /\ simplifyPath(m_simplifiedPath, m_simplifyTolerance)
                     = m_simplifiedPath

(* closePath() has dropped one point of five and kept an interior one,     *)
(* under a tolerance of a whole tile.                                      *)
C14_Witness ==
    /\ ClosePathSucceeded
    /\ m_simplifyTolerance = 2
    /\ Len(m_path) = 5
    /\ Len(m_simplifiedPath) = 4

-----------------------------------------------------------------------------
(* The (x, y) pairs of a list of cells, in the order of the list. *)
Columns(tiles) == [i \in DOMAIN tiles |-> <<tiles[i].x, tiles[i].y>>]

(* C15: every cell getTilesInPolygon(floor) has returned carries the floor *)
(* it was given, and the call with any other floor returns, in the same    *)
(* session state, the same sequence of (x, y) pairs.                       *)
C15_FloorPassThrough ==
    FillReturned =>
        /\ \A i \in DOMAIN op.ret : op.ret[i].z = op.args[1]
        /\ \A other \in 0..MaxFloor :
              Columns(getTilesInPolygon(m_closed, m_path, m_simplifiedPath,
                                        m_boundingBox, other))
                 = Columns(op.ret)

(* A fill asked for a floor other than the ground floor has returned cells *)
(* on more than one row.                                                   *)
C15_Witness ==
    /\ FillReturned
    /\ op.args[1] # 0
    /\ \E i, j \in DOMAIN op.ret : op.ret[i].y # op.ret[j].y

-----------------------------------------------------------------------------
(* v is the least (sign = 1) or the greatest (sign = -1) element of set. *)
IsExtreme(v, set, sign) ==
    /\ v \in set
    /\ \A w \in set : sign * v <= sign * w

(* C16: the bounding box has points exactly when the raw path is not       *)
(* empty, and then its four bounds are the least and the greatest x and y  *)
(* over the points of the raw path.                                        *)
C16_BoundingBoxIsExact ==
    LET xs == {m_path[i].x : i \in DOMAIN m_path}
        ys == {m_path[i].y : i \in DOMAIN m_path}
    IN  /\ m_boundingBox.hasPoints = (m_path # <<>>)
        /\ m_path # <<>> =>
              /\ IsExtreme(m_boundingBox.minX, xs, 1)
              /\ IsExtreme(m_boundingBox.maxX, xs, -1)
              /\ IsExtreme(m_boundingBox.minY, ys, 1)
              /\ IsExtreme(m_boundingBox.maxY, ys, -1)
              /\ m_boundingBox.minX <= m_boundingBox.maxX
              /\ m_boundingBox.minY <= m_boundingBox.maxY

(* A point added after closePath() has widened the box on both axes. *)
C16_Witness ==
    /\ op.name = "addPoint"
    /\ m_closed
    /\ Last(m_path) = LassoPoint(op.args[1], op.args[2])
    /\ m_boundingBox.maxX = op.args[1]
    /\ m_boundingBox.maxY = op.args[2]
    /\ \A i \in 1..(Len(m_path) - 1) :
          m_path[i].x < op.args[1] /\ m_path[i].y < op.args[2]

-----------------------------------------------------------------------------
(* The grid of the samples and the ring of tiles around it. *)
Window == (-1)..(MaxCoord + 1)

(* C17: no cell getTilesInPolygon has returned, and no point for which     *)
(* pointInPolygon is true, lies outside the session's bounding box (every  *)
(* point is outside a box without points).                                 *)
C17_NothingOutsideBoundingBox ==
    /\ FillReturned =>
          \A i \in DOMAIN op.ret :
              contains(m_boundingBox, op.ret[i].x, op.ret[i].y)
    /\ \A x \in Window, y \in Window :
          ~contains(m_boundingBox, x, y) =>
              ~pointInPolygon(m_path, m_simplifiedPath, x, y)

(* A fill has returned cells of an outline whose box leaves free tiles on  *)
(* every side of it inside the grid, and some point of the grid is inside  *)
(* the outline.                                                            *)
C17_Witness ==
    /\ FillReturned
    /\ op.ret # <<>>
    /\ m_boundingBox.minX > 0 /\ m_boundingBox.maxX < MaxCoord
    /\ m_boundingBox.minY > 0 /\ m_boundingBox.maxY < MaxCoord
    /\ \E x \in Window, y \in Window :
          pointInPolygon(m_path, m_simplifiedPath, x, y)

-----------------------------------------------------------------------------
(* The edge from poly[j] to poly[i] straddles y and meets the horizontal   *)
(* line through y strictly to the right of x: with dx, dy the edge's       *)
(* extent, x < poly[i].x + dx * (y - poly[i].y) / dy in the rationals.     *)
CrossesRightOf(poly, i, j, x, y) ==
    LET dx == poly[j].x - poly[i].x
        dy == poly[j].y - poly[i].y
    IN  /\ (poly[i].y > y) # (poly[j].y > y)
        /\ IF dy > 0
           THEN (x - poly[i].x) * dy < dx * (y - poly[i].y)
           ELSE (x - poly[i].x) * dy > dx * (y - poly[i].y)

(* The even-odd rule over the closed loop of poly's edges. *)
EvenOddInside(poly, x, y) ==
    LET Previous(i) == IF i = 1 THEN Len(poly) ELSE i - 1
        crossing == {i \in 1..Len(poly) :
                        CrossesRightOf(poly, i, Previous(i), x, y)}
    IN  Cardinality(crossing) % 2 = 1

(* C18: for a polygon of 3 or more points, pointInPolygon(x, y) is true    *)
(* exactly when the number of edges that straddle y and whose exact        *)
(* intersection with the line through y is right of x is odd.              *)
C18_RayCastIsExact ==
    Len(CurrentPolygon) >= 3 =>
        \A x \in Window, y \in Window :
            pointInPolygon(m_path, m_simplifiedPath, x, y)
               = EvenOddInside(CurrentPolygon, x, y)

-----------------------------------------------------------------------------
(* C19: when getTilesInPolygon has been called on a closed session whose   *)
(* points have coordinates in 0..MapMax, the estimate (width + 1) *         *)
(* (height + 1) it made fits the int it is computed in, and the call has   *)
(* returned a list of cells, not an exception.                             *)
C19_EstimateFitsInt ==
    (/\ FillReturned
     /\ m_closed
     /\ \A i \in DOMAIN m_path :
           m_path[i].x \in 0..MapMax /\ m_path[i].y \in 0..MapMax)
    => /\ isValid(m_boundingBox) => ~estimatedTilesOverflows(m_boundingBox)
       /\ \A i \in DOMAIN op.ret : "what" \notin DOMAIN op.ret[i]

-----------------------------------------------------------------------------
(* C20: every closePath() call returns, whatever the raw path and the      *)
(* tolerance set, zero and negative ones included: no rdpSimplify call     *)
(* makes a recursive call on its own index range.                          *)
C20_ClosePathReturns ==
    op.name = "closePath" => op.ret # Unreturned

-----------------------------------------------------------------------------
-----------------------------------------------------------------------------
(* The square of the distance from p to the line through s and e, or to s  *)
(* when s = e, as num2/den.                                                *)
LineDistance(p, s, e) ==
    LET ex == e.x - s.x
        ey == e.y - s.y
        px == p.x - s.x
        py == p.y - s.y
    IN  IF s = e
        THEN [num2 |-> px * px + py * py, den |-> 1]
        ELSE [num2 |-> (px * ey - py * ex) * (px * ey - py * ex),
              den |-> ex * ex + ey * ey]

(* The indices of the raw path that the simplifier has kept. *)
KeptIndices ==
    rdpSimplify(m_path, 1, Len(m_path), m_simplifyTolerance, {1, Len(m_path)})

(* C22: right after a successful closePath() every raw point that was not  *)
(* kept is within the tolerance of the line through the nearest kept point *)
(* before it and the nearest kept point after it (of that point itself     *)
(* when the two are equal).                                                *)
C22_DiscardedNearChord ==
    ClosePathSucceeded =>
        /\ KeptPoints(m_path, KeptIndices, 1) = m_simplifiedPath
        /\ \A i \in DOMAIN m_path \ KeptIndices :
              \E a \in KeptIndices, b \in KeptIndices :
                  /\ a < i /\ i < b
                  /\ \A k \in KeptIndices : k <= a \/ k >= b
                  /\ WithinTolerance(LineDistance(m_path[i], m_path[a], m_path[b]),
                                     m_simplifyTolerance)

(* A point that is off the chord of its kept neighbours, yet within the    *)
(* tolerance of it, has been discarded.                                    *)
C22_Witness ==
    /\ ClosePathSucceeded
    /\ \E i \in DOMAIN m_path \ KeptIndices :
          \E a \in KeptIndices, b \in KeptIndices :
              /\ a < i /\ i < b
              /\ \A k \in KeptIndices : k <= a \/ k >= b
              /\ LineDistance(m_path[i], m_path[a], m_path[b]).num2 > 0

-----------------------------------------------------------------------------
(* The exact intersections with the line y of the edges of poly in the set *)
(* edges, in ascending order.                                              *)
RECURSIVE SortedIntersections(_, _, _)
SortedIntersections(poly, edges, y) ==
    IF edges = {}
    THEN <<>>
    ELSE LET least == CHOOSE i \in edges : \A j \in edges :
                          Intersection(poly, i, y).num * Intersection(poly, j, y).den
                             <= Intersection(poly, j, y).num * Intersection(poly, i, y).den
         IN  <<Intersection(poly, least, y)>>
                \o SortedIntersections(poly, edges \ {least}, y)

(* The cells between the intersections k and k + 1, k + 2 and k + 3, ...   *)
(* of the ascending list xs: from the ceiling of the lower to the floor of *)
(* the upper.                                                              *)
RECURSIVE CellsBetween(_, _, _, _)
CellsBetween(xs, k, y, floor) ==
    IF k + 1 > Len(xs)
    THEN <<>>
    ELSE LET lower == Ceil(xs[k].num, xs[k].den)
             upper == Floor(xs[k + 1].num, xs[k + 1].den)
             cells == IF upper < lower
                      THEN <<>>
                      ELSE [n \in 1..(upper - lower + 1) |->
                               [x |-> lower + n - 1, y |-> y, z |-> floor]]
         IN  cells \o CellsBetween(xs, k + 2, y, floor)

(* The fill that recomputes every intersection on every scanline. *)
RECURSIVE ReferenceFill(_, _, _, _)
ReferenceFill(poly, y, maxY, floor) ==
    IF y > maxY
    THEN <<>>
    ELSE CellsBetween(SortedIntersections(poly, CrossingEdges(poly, y), y),
                      1, y, floor)
            \o ReferenceFill(poly, y + 1, maxY, floor)

(* The sorted active edges of the fill on scanline y. *)
ActiveEdgesAt(y) ==
    ActiveEdgesOnRow(buildEdgeTable(CurrentPolygon,
                         [b \in 1..(m_boundingBox.maxY - m_boundingBox.minY + 1)
                             |-> <<>>],
                         m_boundingBox.minY),
                     <<>>, m_boundingBox.minY, m_boundingBox.minY, y)

(* C23: on every scanline y of a fill the active edges are, one for one,   *)
(* the edges with yMin <= y < yMax and the x of each is the exact          *)
(* intersection of its edge with y; and the cells returned are, in order,  *)
(* those of the fill that recomputes every intersection on every scanline. *)
C23_IncrementalFillIsExact ==
    ClosedPolygonFilled =>
        /\ \A y \in m_boundingBox.minY..m_boundingBox.maxY :
              LET active == ActiveEdgesAt(y)
                  exact == SortedIntersections(CurrentPolygon,
                               CrossingEdges(CurrentPolygon, y), y)
              IN  /\ Len(active) = Len(exact)
                  /\ \A k \in DOMAIN active :
                        active[k].x * exact[k].den = exact[k].num * active[k].den
        /\ op.ret = ReferenceFill(CurrentPolygon, m_boundingBox.minY,
                                  m_boundingBox.maxY, op.args[1])

(* A fill has advanced a slanted edge over two scanlines or more, through  *)
(* an intersection that is not a whole number, and returned cells.         *)
C23_Witness ==
    /\ ClosedPolygonFilled
    /\ op.ret # <<>>
    /\ \E y \in (m_boundingBox.minY + 2)..m_boundingBox.maxY :
          \E k \in DOMAIN ActiveEdgesAt(y) :
              /\ ActiveEdgesAt(y)[k].invSlope # 0
              /\ ActiveEdgesAt(y)[k].yMax > y
              /\ ActiveEdgesAt(y)[k].x % ActiveEdgesAt(y)[k].den # 0
              /\ \E j \in DOMAIN ActiveEdgesAt(y - 2) :
                    ActiveEdgesAt(y - 2)[j] =
                        [ActiveEdgesAt(y)[k] EXCEPT
                            !.x = @ - 2 * ActiveEdgesAt(y)[k].invSlope]

-----------------------------------------------------------------------------
(* C24: every cell getTilesInPolygon has returned has a y from the box's   *)
(* minY up to, and not including, its maxY; a closed outline whose points  *)
(* all have one y yields no cell.                                          *)
C24_TopRowNeverFilled ==
    FillReturned =>
        /\ \A i \in DOMAIN op.ret :
              /\ m_boundingBox.minY <= op.ret[i].y
              /\ op.ret[i].y < m_boundingBox.maxY
        /\ (\A i \in DOMAIN m_path : m_path[i].y = m_path[1].y) => op.ret = <<>>

(* A fill has returned cells on the row below the box's top row, under an  *)
(* outline that has an edge lying along the top row.                       *)
C24_Witness ==
    /\ ClosedPolygonFilled
    /\ \E i \in DOMAIN op.ret : op.ret[i].y = m_boundingBox.maxY - 1
    /\ \E i \in 1..(Len(CurrentPolygon) - 1) :
          /\ CurrentPolygon[i].y = m_boundingBox.maxY
          /\ CurrentPolygon[i + 1].y = m_boundingBox.maxY
          /\ CurrentPolygon[i].x # CurrentPolygon[i + 1].x

-----------------------------------------------------------------------------
(* getTilesInPolygon has returned for a session that closePath() closed    *)
(* and that has not changed since.                                         *)
FreshlyClosedFilled ==
    /\ FillReturned
    /\ m_closed
    /\ m_path[1] = Last(m_path)
    /\ m_simplifiedPath = simplifyPath(m_path, m_simplifyTolerance)

(* C25: with the default tolerance, the cells getTilesInPolygon returns    *)
(* after a successful closePath() are the cells the same fill returns for  *)
(* the closed raw path.                                                    *)
C25_SimplifyKeepsSelection ==
    (FreshlyClosedFilled /\ m_simplifyTolerance = DefaultSimplifyTolerance) =>
        Cells(op.ret)
           = Cells(scanlineFillAET(m_path, <<>>, m_boundingBox, op.args[1]))

-----------------------------------------------------------------------------
(* The raw path after addPoint has been called, on path, with the points   *)
(* k, k + 1, ... of points, under the session's spacing.                   *)
RECURSIVE Dragged(_, _, _)
Dragged(path, points, k) ==
    IF k > Len(points)
    THEN path
    ELSE Dragged(IF TooClose(path, points[k], m_minPointDistanceSquared)
                 THEN path
                 ELSE Append(path, points[k]),
                 points, k + 1)

(* The bounding box expanded with the points k, k + 1, ... of path. *)
RECURSIVE BoxOf(_, _, _)
BoxOf(bb, path, k) ==
    IF k > Len(path)
    THEN bb
    ELSE BoxOf(expand(bb, path[k].x, path[k].y), path, k + 1)

(* What getTilesInPolygon(floor) returns after addPoint of each of points  *)
(* in turn, on an empty session with the session's configuration, and      *)
(* closePath().                                                            *)
SelectionOf(points, floor) ==
    LET raw == Dragged(<<>>, points, 1)
    IN  IF Len(raw) < 3
        THEN <<>>
        ELSE getTilesInPolygon(TRUE, ClosedPath(raw),
                               simplifyPath(ClosedPath(raw), m_simplifyTolerance),
                               BoxOf(EmptyBoundingBox, raw, 1), floor)

(* p1, pn, pn-1, ..., p2 for the points p1, ..., pn. *)
OtherDirection(points) ==
    [k \in 1..Len(points) |->
        IF k = 1 THEN points[1] ELSE points[Len(points) - k + 2]]

(* The points whose addPoint calls, followed by closePath(), give the raw  *)
(* path of a freshly closed session: all of it but the closing point.      *)
DrawnPoints == SubSeq(m_path, 1, Len(m_path) - 1)

(* C26: the set of cells returned for an outline of 3 or more points is    *)
(* the set returned for the same points drawn in the other direction.      *)
C26_DirectionIndependent ==
    (FreshlyClosedFilled /\ Len(DrawnPoints) >= 3) =>
        Cells(op.ret) = Cells(SelectionOf(OtherDirection(DrawnPoints), op.args[1]))

-----------------------------------------------------------------------------
(* C27: while the session is not closed, the simplified path is the first  *)
(* points of the raw path, as many as: all n of them for n <= 2, 2 for     *)
(* 3 <= n <= 19, and the greatest multiple of 20 up to n for n >= 20.      *)
C27_OpenDragSnapshot ==
    ~m_closed =>
        LET n == Len(m_path)
            snapshot == IF n <= 2
                        THEN n
                        ELSE IF n <= 19 THEN 2 ELSE 20 * (n \div 20)
        IN  /\ Len(m_simplifiedPath) = snapshot
            /\ m_simplifiedPath = SubSeq(m_path, 1, snapshot)

(* An open drag has passed its second refresh by one point. *)
C27_Witness ==
    /\ ~m_closed
    /\ op.name = "addPoint"
    /\ Len(m_path) = 41
    /\ Len(m_simplifiedPath) = 40

-----------------------------------------------------------------------------
(* C28: closePath is idempotent: a closePath that directly follows a       *)
(* closePath leaves the raw path, the simplified path, the bounding box    *)
(* and the two flags as the first one left them.                           *)
C28_ClosePathIdempotent ==
    [][(op.name = "closePath" /\ op'.name = "closePath") =>
           UNCHANGED session]_vars

(* A closePath has closed an outline by appending its first point; the     *)
(* next closePath meets a path that already ends on its first point.       *)
C28_Witness ==
    /\ op.name = "closePath"
    /\ m_closed
    /\ Len(m_path) = MaxPoints + 1
    /\ Last(m_path) = m_path[1]
    /\ m_path[Len(m_path) - 1] # m_path[1]

-----------------------------------------------------------------------------
(* C29: with the default spacing and tolerance, whenever the session is    *)
(* closed the raw path has at least 3 points and the simplified path has   *)
(* at least 3 points, so neither size check of the fill cuts a closed      *)
(* session short.                                                          *)
C29_ClosedHasThreePoints ==
    m_closed => /\ Len(m_path) >= 3
                /\ Len(m_simplifiedPath) >= 3

(* closePath has closed an outline of three distinct points and the        *)
(* simplifier has kept exactly three points of the four.                   *)
C29_Witness ==
    /\ op.name = "closePath"
    /\ m_closed
    /\ Len(m_path) = 4
    /\ Len(m_simplifiedPath) = 3

-----------------------------------------------------------------------------
(* C30: with the default spacing, in every state reached by clear,         *)
(* addPoint and closePath no two consecutive points of the raw path are    *)
(* equal.                                                                  *)
C30_NoRepeatedPoint ==
    \A i \in 1..(Len(m_path) - 1) : m_path[i] # m_path[i + 1]

(* A path that came back to its first point has been closed, three points  *)
(* long (a closed path is never shorter), and an addPoint of the point it  *)
(* ends on has then been turned away.                                      *)
C30_Witness ==
    /\ op.name = "addPoint"
    /\ m_closed
    /\ Len(m_path) = 3
    /\ m_path[3] = m_path[1]
    /\ LassoPoint(op.args[1], op.args[2]) = m_path[3]

====
